---- MODULE Spec2Model ----
(***************************************************************************)
(* Bubble geometry and text layout engine of bd-dialogue-bubble-editor.    *)
(*                                                                         *)
(* Three groups of operations are modelled, each under its own             *)
(* specification:                                                          *)
(*   SpecGeom : generateBubblePaths and getOverallBbox (bubbleUtils)       *)
(*   SpecWrap : parseRichText and drawRichText (bubbleUtils)               *)
(*   SpecFit  : measureText, calculateOptimalFontSize, autoFitBubbleText   *)
(*              (textAutoFit.ts)                                           *)
(*                                                                         *)
(* Numbers.  Geometry coordinates are fixed-point integers in thousandths  *)
(* of a unit (Scale), so that w/2, baseWidth/2, 0.25, 0.3*w and the sine   *)
(* and cosine factors are representable; the trigonometric factors are     *)
(* rounded to 1/1000.                                                      *)
(***************************************************************************)
EXTENDS Integers, Sequences, FiniteSets

VARIABLES
    \* --- geometry ---
    bubble,      \* the Bubble record handed to generateBubblePaths / getOverallBbox
    paths,       \* the BubblePaths returned by generateBubblePaths
    bbox,        \* the rectangle returned by getOverallBbox
    gpc,         \* which of the two functions have been applied
    \* --- drawRichText ---
    call,        \* the arguments of one drawRichText call (html, width, fontSize, getMaxWidthAtY)
    segments,    \* segments: TextSegment[] (parseRichText's result, then measured)
    lines,       \* lines: TextLine[]
    lineYs,      \* history: the value of currentY while lines[i] was being filled
    currentLine, \* currentLine: TextLine
    currentY,    \* currentY
    segIdx,      \* position of the `for (const seg of segments)` loop
    drawIdx,     \* position of the `for (const line of lines)` loop
    ctx,         \* the canvas context: save depth, restore count, fillText calls
    wpc,         \* position in drawRichText
    \* --- textAutoFit ---
    fcall,       \* the call: entry point, minFontSize, maxFontSize, the metrics of fontFamily
    fbubble,     \* the Bubble object passed as argument
    fargs,       \* history: the fields of the argument object at each call
    loop,        \* calculateOptimalFontSize: fontSize, iterations, measureText calls
    result,      \* the TextFitResult of the last calculateOptimalFontSize
    rets,        \* the bubbles returned by successive autoFitBubbleText applications
    fpc          \* position in autoFitBubbleText / calculateOptimalFontSize

gvars == <<bubble, paths, bbox, gpc>>
wvars == <<call, segments, lines, lineYs, currentLine, currentY, segIdx, drawIdx, ctx, wpc>>
fvars == <<fcall, fbubble, fargs, loop, result, rets, fpc>>
vars == <<gvars, wvars, fvars>>

Scale == 10 * 100

Min(a, b) == IF a <= b THEN a ELSE b
Max(a, b) == IF a >= b THEN a ELSE b

(***************************************************************************)
(* Bounds of the geometry inputs.                                          *)
(***************************************************************************)
MaxParts == 2

\* BubbleType (types.ts is imported by every source file)
BubbleTypes ==
    {"SpeechDown", "SpeechUp", "SpeechDownMinimal", "SpeechUpMinimal", "Whisper",
     "Thought", "Shout", "Descriptive", "TextOnly"}

IsSpeechFamily(type) == type \in {"SpeechDown", "SpeechUp", "Whisper"}

\* bubble widths and heights tried (units); 4 is a bubble smaller than the
\* default corner radius, which the engine "must tolerate"
InputWidths == {4, 200}
InputHeights == {4, 100, 200}

\* a Part, either variant, as one record shape
SpeechTailPart(id, bx, by, bw, tx, ty) ==
    [type |-> "speech-tail", id |-> id,
     baseCX |-> bx * Scale, baseCY |-> by * Scale, baseWidth |-> bw * Scale,
     tipX |-> tx * Scale, tipY |-> ty * Scale,
     offsetX |-> 0, offsetY |-> 0, size |-> 0]

ThoughtDotPart(id, ox, oy, sz) ==
    [type |-> "thought-dot", id |-> id,
     baseCX |-> 0, baseCY |-> 0, baseWidth |-> 0, tipX |-> 0, tipY |-> 0,
     offsetX |-> ox * Scale, offsetY |-> oy * Scale, size |-> sz * Scale]

InputTips == {<<80, 160>>, <<500, -30>>}

InputParts ==
    {SpeechTailPart("t", bx, by, bw, tip[1], tip[2]) :
        bx \in {100, 200}, by \in {0, 100}, bw \in {0, 40}, tip \in InputTips}
    \cup {ThoughtDotPart("d", -30, 120, 20), ThoughtDotPart("d", 210, 50, 10)}

SeqsUpTo(S, n) == UNION {[1..k -> S] : k \in 0..n}

InputBubbles ==
    [type : BubbleTypes,
     width : {w * Scale : w \in InputWidths},
     height : {h * Scale : h \in InputHeights},
     parts : SeqsUpTo(InputParts, MaxParts)]

(***************************************************************************)
(* Path strings.  A path string is modelled by its lexical tokens: command *)
(* letters and numbers, in the order the template literal emits them.      *)
(***************************************************************************)
Cmd(c) == [k |-> "cmd", c |-> c, n |-> 0]
Num(n) == [k |-> "num", c |-> "", n |-> n]

\* "M x,y" / "L x,y"
MoveTo(x, y) == <<Cmd("M"), Num(x), Num(y)>>
LineTo(x, y) == <<Cmd("L"), Num(x), Num(y)>>
\* "A r,r 0 0 1 x,y"
ArcTo(r, x, y) == <<Cmd("A"), Num(r), Num(r), Num(0), Num(0), Num(1), Num(x), Num(y)>>
ClosePath == <<Cmd("Z")>>

\* corner radius r
cornerRadius(type, w, h) ==
    IF IsSpeechFamily(type) THEN Min(w, h) \div 2
    ELSE IF type = "Descriptive" THEN 5 * Scale
    ELSE 20 * Scale

\* parts.find(p => p.type === 'speech-tail'): the first tail, or <<>> for undefined
findTail(parts) ==
    LET idx == {i \in 1..Len(parts) : parts[i].type = "speech-tail"}
    IN  IF idx = {} THEN <<>>
        ELSE <<parts[CHOOSE i \in idx : \A j \in idx : i <= j]>>

clampedBaseCX(w, tail) == Max(0, Min(w, tail.baseCX))
clampedBaseCY(h, tail) == Max(0, Min(h, tail.baseCY))

leftBaseX(w, r, tail) == Max(r, clampedBaseCX(w, tail) - tail.baseWidth \div 2)
rightBaseX(w, r, tail) == Min(w - r, clampedBaseCX(w, tail) + tail.baseWidth \div 2)

\* `L sx,sy Q sx (tipX - sx) 0.25,midY tipX,tipY Q ex (tipX - ex) 0.25,midY ex,ey`
createTailPath(startPt, endPt, tail, cby) ==
    LET midY == cby + (tail.tipY - cby) \div 2
    IN  <<Cmd("L"), Num(startPt.x), Num(startPt.y),
          Cmd("Q"), Num(startPt.x), Num(tail.tipX - startPt.x), Num(Scale \div 4), Num(midY),
                    Num(tail.tipX), Num(tail.tipY),
          Cmd("Q"), Num(endPt.x), Num(tail.tipX - endPt.x), Num(Scale \div 4), Num(midY),
                    Num(endPt.x), Num(endPt.y)>>

\* the plain rounded rectangle of the else branch
roundedRectPath(w, h, r) ==
    MoveTo(r, 0) \o LineTo(w - r, 0) \o ArcTo(r, w, r) \o LineTo(w, h - r)
    \o ArcTo(r, w - r, h) \o LineTo(r, h) \o ArcTo(r, 0, h - r) \o LineTo(0, r)
    \o ArcTo(r, r, 0) \o ClosePath

\* tail on the bottom edge (clampedBaseCY === h)
speechBottomPath(w, h, r, tail) ==
    LET lx == leftBaseX(w, r, tail)
        rx == rightBaseX(w, r, tail)
    IN  MoveTo(r, 0) \o LineTo(w - r, 0) \o ArcTo(r, w, r) \o LineTo(w, h - r)
        \o ArcTo(r, w - r, h) \o LineTo(rx, h)
        \o createTailPath([x |-> rx, y |-> h], [x |-> lx, y |-> h], tail, clampedBaseCY(h, tail))
        \o LineTo(r, h) \o ArcTo(r, 0, h - r) \o LineTo(0, r) \o ArcTo(r, r, 0) \o ClosePath

\* tail on the top edge (clampedBaseCY === 0)
speechTopPath(w, h, r, tail) ==
    LET lx == leftBaseX(w, r, tail)
        rx == rightBaseX(w, r, tail)
    IN  MoveTo(r, 0) \o LineTo(lx, 0)
        \o createTailPath([x |-> lx, y |-> 0], [x |-> rx, y |-> 0], tail, clampedBaseCY(h, tail))
        \o LineTo(w - r, 0) \o ArcTo(r, w, r) \o LineTo(w, h - r) \o ArcTo(r, w - r, h)
        \o LineTo(r, h) \o ArcTo(r, 0, h - r) \o LineTo(0, r) \o ArcTo(r, r, 0) \o ClosePath

\* speech family: the path stays '' without a tail, or with a tail whose
\* clamped base is on neither the top nor the bottom edge
speechPath(w, h, r, parts) ==
    LET found == findTail(parts)
    IN  IF found = <<>> THEN <<>>
        ELSE IF clampedBaseCY(h, found[1]) = h THEN speechBottomPath(w, h, r, found[1])
        ELSE IF clampedBaseCY(h, found[1]) = 0 THEN speechTopPath(w, h, r, found[1])
        ELSE <<>>

\* cos and sin (x1000) of (i / 9) * 2 PI - PI / 2, i = 0..9, entry i + 1
LobeCos == <<0, 643, 985, 866, 342, -342, -866, -985, -643, 0>>
LobeSin == <<-1000, -766, -174, 500, 940, 940, 500, -174, -766, -1000>>
\* cos and sin (x1000) of the mid angle of lobe i = 0..8, entry i + 1
LobeMidCos == <<342, 866, 985, 643, 0, -643, -985, -866, -342>>
LobeMidSin == <<-940, -500, 174, 766, 1000, 766, 174, -500, -940>>

lobes == 9

\* x1000 product with a trigonometric factor
Trig(radius, factor) == (radius * factor) \div 1000

RECURSIVE thoughtLobes(_, _, _)
thoughtLobes(w, h, i) ==
    IF i >= lobes THEN <<>>
    ELSE LET cx == w \div 2
             cy == h \div 2
             rx == (w * 3) \div 10
             ry == (h * 3) \div 10
             x2 == cx + Trig(rx, LobeCos[i + 2])
             y2 == cy + Trig(ry, LobeSin[i + 2])
             cpx == cx + Trig((rx * 14) \div 10, LobeMidCos[i + 1])
             cpy == cy + Trig((ry * 14) \div 10, LobeMidSin[i + 1])
         IN  <<Cmd("Q"), Num(cpx), Num(cpy), Num(x2), Num(y2)>> \o thoughtLobes(w, h, i + 1)

thoughtPath(w, h) ==
    MoveTo(w \div 2 + Trig((w * 3) \div 10, LobeCos[1]),
           h \div 2 + Trig((h * 3) \div 10, LobeSin[1]))
    \o thoughtLobes(w, h, 0) \o ClosePath

\* parts.forEach: one circle per thought-dot
RECURSIVE thoughtCircles(_)
thoughtCircles(parts) ==
    IF parts = <<>> THEN <<>>
    ELSE (IF Head(parts).type = "thought-dot"
          THEN <<[id |-> Head(parts).id, cx |-> Head(parts).offsetX,
                  cy |-> Head(parts).offsetY, r |-> Head(parts).size \div 2]>>
          ELSE <<>>) \o thoughtCircles(Tail(parts))

\* cos and sin (x1000) of (i / 28) * 2 PI - PI / 2, i = 0..27, entry i + 1
ShoutCos ==
    <<0, 223, 434, 623, 782, 901, 975, 1000, 975, 901, 782, 623, 434, 223,
      0, -223, -434, -623, -782, -901, -975, -1000, -975, -901, -782, -623, -434, -223>>
ShoutSin ==
    <<-1000, -975, -901, -782, -623, -434, -223, 0, 223, 434, 623, 782, 901, 975,
      1000, 975, 901, 782, 623, 434, 223, 0, -223, -434, -623, -782, -901, -975>>

points == 14

RECURSIVE shoutPoints(_, _, _)
shoutPoints(w, h, i) ==
    IF i >= points * 2 THEN <<>>
    ELSE LET isOuter == i % 2 = 0
             currRx == IF isOuter THEN w \div 2 ELSE (w * 10) \div 35
             currRy == IF isOuter THEN h \div 2 ELSE (h * 10) \div 35
             px == w \div 2 + Trig(currRx, ShoutCos[i + 1])
             py == h \div 2 + Trig(currRy, ShoutSin[i + 1])
         IN  (IF i = 0 THEN MoveTo(px, py) ELSE LineTo(px, py)) \o shoutPoints(w, h, i + 1)

shoutPath(w, h) == shoutPoints(w, h, 0) \o ClosePath

generateBubblePaths(b) ==
    LET w == b.width
        h == b.height
        r == cornerRadius(b.type, w, h)
    IN  IF IsSpeechFamily(b.type)
        THEN [bodyPath |-> speechPath(w, h, r, b.parts), partsCircles |-> <<>>]
        ELSE IF b.type = "Thought"
        THEN [bodyPath |-> thoughtPath(w, h), partsCircles |-> thoughtCircles(b.parts)]
        ELSE IF b.type = "Shout"
        THEN [bodyPath |-> shoutPath(w, h), partsCircles |-> <<>>]
        ELSE [bodyPath |-> roundedRectPath(w, h, r), partsCircles |-> <<>>]

padding == 10

\* the running min/max of getOverallBbox's forEach
RECURSIVE bboxExtent(_, _)
bboxExtent(parts, acc) ==
    IF parts = <<>> THEN acc
    ELSE LET p == Head(parts)
             next ==
                 IF p.type = "speech-tail"
                 THEN [minX |-> Min(acc.minX, p.tipX), maxX |-> Max(acc.maxX, p.tipX),
                       minY |-> Min(acc.minY, p.tipY), maxY |-> Max(acc.maxY, p.tipY)]
                 ELSE IF p.type = "thought-dot"
                 THEN [minX |-> Min(acc.minX, p.offsetX - p.size \div 2),
                       maxX |-> Max(acc.maxX, p.offsetX + p.size \div 2),
                       minY |-> Min(acc.minY, p.offsetY - p.size \div 2),
                       maxY |-> Max(acc.maxY, p.offsetY + p.size \div 2)]
                 ELSE acc
         IN  bboxExtent(Tail(parts), next)

getOverallBbox(b) ==
    LET e == bboxExtent(b.parts, [minX |-> 0, minY |-> 0, maxX |-> b.width, maxY |-> b.height])
        pad == padding * Scale
    IN  [x |-> e.minX - pad,
         y |-> e.minY - pad,
         width |-> e.maxX + pad - e.minX,
         height |-> e.maxY + pad - e.minY]

(***************************************************************************)
(* Reading a path string back: the commands of a token sequence, each with *)
(* the numbers that follow it up to the next command letter.               *)
(***************************************************************************)
CmdIndexes(path) == {i \in 1..Len(path) : path[i].k = "cmd"}

\* the numbers that follow the command letter at index i
ArgsOf(path, i) ==
    LET later == {j \in CmdIndexes(path) : j > i}
        stop == IF later = {} THEN Len(path) + 1
                ELSE CHOOSE j \in later : \A m \in later : j <= m
    IN  [a \in 1..(stop - i - 1) |-> path[i + a].n]

\* number of arguments the path grammar gives each command
ExpectedArgs(c) ==
    CASE c = "M" -> 2
      [] c = "L" -> 2
      [] c = "Q" -> 4
      [] c = "A" -> 7
      [] c = "Z" -> 0
      [] OTHER -> -1

\* the coordinate pairs a command carries: M, L one point; Q its control and
\* end points (every pair of numbers it was given); A its end point
PointsOf(path, i) ==
    LET a == ArgsOf(path, i)
        c == path[i].c
    IN  IF c \in {"M", "L", "Q"}
        THEN {<<a[2 * m - 1], a[2 * m]>> : m \in 1..(Len(a) \div 2)}
        ELSE IF c = "A" /\ Len(a) >= 2
        THEN {<<a[Len(a) - 1], a[Len(a)]>>}
        ELSE {}

PathPoints(path) == UNION {PointsOf(path, i) : i \in CmdIndexes(path)}

InRect(rect, x, y) ==
    /\ rect.x <= x /\ x <= rect.x + rect.width
    /\ rect.y <= y /\ y <= rect.y + rect.height

TailsOf(b) == {b.parts[i] : i \in {j \in 1..Len(b.parts) : b.parts[j].type = "speech-tail"}}

TipOutsideBody(b, t) == t.tipX < 0 \/ t.tipX > b.width \/ t.tipY < 0 \/ t.tipY > b.height

(***************************************************************************)
(* drawRichText and parseRichText.                                         *)
(*                                                                         *)
(* A markup string is a sequence of characters; a tag is one character:    *)
(* "<br>" stands for any match of /<br\s*\/?>/gi and "<i>" for any other   *)
(* match of /<[^>]*>/g.  Widths are in units of the advance of the glyph   *)
(* "a" in the font of the call.                                            *)
(***************************************************************************)
MaxHtmlLen == 5

HtmlChars == {"a", "b", " ", "<br>", "<i>"}

IsSpace(ch) == ch = " "

\* the '\n' marker text of a forced break
NewlineText == <<"\n">>

\* html.split(/<br\s*\/?>/gi): the fragments between line-break tags
RECURSIVE splitBr(_, _)
splitBr(html, cur) ==
    IF html = <<>> THEN <<cur>>
    ELSE IF Head(html) = "<br>" THEN <<cur>> \o splitBr(Tail(html), <<>>)
    ELSE splitBr(Tail(html), Append(cur, Head(html)))

\* lineHtml.trim() is non-empty
trimIsNonEmpty(lineHtml) == \E i \in 1..Len(lineHtml) : ~IsSpace(lineHtml[i])

\* lineHtml.replace(/<[^>]*>/g, '')
stripTags(lineHtml) == SelectSeq(lineHtml, LAMBDA ch : ch # "<i>")

TextSegment(text) == [text |-> text, width |-> 0, height |-> 0]

RECURSIVE parseFragments(_, _)
parseFragments(frags, lineIdx) ==
    IF lineIdx > Len(frags) THEN <<>>
    ELSE LET lineHtml == frags[lineIdx]
             plainText == stripTags(lineHtml)
             textSeg == IF trimIsNonEmpty(lineHtml) /\ plainText # <<>>
                        THEN <<TextSegment(plainText)>> ELSE <<>>
             brSeg == IF lineIdx < Len(frags) THEN <<TextSegment(NewlineText)>> ELSE <<>>
         IN  textSeg \o brSeg \o parseFragments(frags, lineIdx + 1)

parseRichText(html) == parseFragments(splitBr(html, <<>>), 1)

\* ctx.measureText(text).width: the metrics oracle, the sum of glyph advances
GlyphAdvance(ch) == IF ch = "b" THEN 2 ELSE 1

RECURSIVE measureWidth(_)
measureWidth(text) ==
    IF text = <<>> THEN 0 ELSE GlyphAdvance(Head(text)) + measureWidth(Tail(text))

\* seg.text.split(/\s+/)
RECURSIVE splitWords(_, _, _)
splitWords(text, cur, inRun) ==
    IF text = <<>> THEN <<cur>>
    ELSE IF IsSpace(Head(text))
    THEN (IF inRun THEN splitWords(Tail(text), cur, TRUE)
          ELSE <<cur>> \o splitWords(Tail(text), <<>>, TRUE))
    ELSE splitWords(Tail(text), Append(cur, Head(text)), FALSE)

words(text) == splitWords(text, <<>>, FALSE)

\* getMaxWidthAtY ? getMaxWidthAtY(currentY) : width
\* the optional callback is absent ("none") or one of two shapes of interior:
\* one unit wider ("widening") or narrower ("narrowing") per line of text
maxLineWidthAt(c, y) ==
    IF c.getMaxWidthAtY = "none" THEN c.width
    ELSE IF c.getMaxWidthAtY = "widening" THEN c.width + y \div c.fontSize
    ELSE c.width - y \div c.fontSize

EmptyLine == [segments |-> <<>>, width |-> 0, height |-> 0]

\* faulty variant: the word about to be placed is left out of the comparison
lineIsFullIgnoringWord(line, wordWidth, maxLineWidth) ==
    line.width > maxLineWidth /\ Len(line.segments) > 0

\* the condition that closes the current line before a word is placed
lineIsFull(line, wordWidth, maxLineWidth) ==
    line.width + wordWidth > maxLineWidth /\ Len(line.segments) > 0

\* the body of `for (const word of words)`: the wrap state after one word
placeWord(st, word, seg, c) ==
    LET wordWidth == measureWidth(Append(word, " "))
        maxLineWidth == maxLineWidthAt(c, st.currentY)
        closed == lineIsFull(st.currentLine, wordWidth, maxLineWidth)
        \* currentLine is reset before `currentLine.height || defaultStyle.fontSize` is read
        advance == IF EmptyLine.height # 0 THEN EmptyLine.height ELSE c.fontSize
        line == IF closed THEN EmptyLine ELSE st.currentLine
    IN  [lines |-> IF closed THEN Append(st.lines, st.currentLine) ELSE st.lines,
         lineYs |-> IF closed THEN Append(st.lineYs, st.currentY) ELSE st.lineYs,
         currentY |-> IF closed THEN st.currentY + advance ELSE st.currentY,
         currentLine |->
            [segments |-> Append(line.segments,
                                 [text |-> word, width |-> wordWidth, height |-> seg.height]),
             width |-> line.width + wordWidth,
             height |-> Max(line.height, seg.height)]]

RECURSIVE placeWords(_, _, _, _)
placeWords(st, ws, seg, c) ==
    IF ws = <<>> THEN st
    ELSE placeWords(placeWord(st, Head(ws), seg, c), Tail(ws), seg, c)

(***************************************************************************)
(* textAutoFit.ts.  Lengths here are in hundredths of a pixel (FitScale),  *)
(* so that fontSize * 1.4 and the safe-zone factors 0.5, 0.55, 0.65 are    *)
(* integers.                                                               *)
(***************************************************************************)
FitScale == 10 * 10

\* getTextBounds: the safe text zone (width, height); x and y are not used
\* by the fit
getTextBounds(b) ==
    IF b.type = "Shout" THEN [width |-> b.width * 50, height |-> b.height * 55]
    ELSE IF b.type = "Thought" THEN [width |-> b.width * 50, height |-> b.height * 65]
    ELSE [width |-> (b.width - 10 * 2) * FitScale, height |-> (b.height - 10 * 2) * FitScale]

\* Math.max() of no argument
NegInfinity == (0 - 1000000) * 1000

\* ctx.measureText(line).width at `${fontSize}px ${fontFamily}`: the metrics
\* oracle.  "linear": half an em per unit of advance; "hinted": the same,
\* but odd sizes render 0.6 px wider per unit (an oracle that is not monotone
\* in the font size)
canvasWidth(metrics, line, fontSize) ==
    measureWidth(line) * (fontSize * 50 + (IF metrics = "hinted" /\ fontSize % 2 = 1 THEN 60 ELSE 0))

\* `for (const word of words)` of measureText: the lines of the greedy wrap
RECURSIVE fitLines(_, _, _, _, _)
fitLines(ws, currentLineText, metrics, fontSize, maxWidth) ==
    IF ws = <<>>
    THEN (IF currentLineText # <<>> THEN <<currentLineText>> ELSE <<>>)
    ELSE LET word == Head(ws)
             testLine == IF currentLineText # <<>> THEN currentLineText \o <<" ">> \o word ELSE word
         IN  IF canvasWidth(metrics, testLine, fontSize) > maxWidth
             THEN (IF currentLineText # <<>> THEN <<currentLineText>> ELSE <<>>)
                  \o fitLines(Tail(ws), word, metrics, fontSize, maxWidth)
             ELSE fitLines(Tail(ws), testLine, metrics, fontSize, maxWidth)

RECURSIVE maxOf(_, _)
maxOf(ns, acc) == IF ns = <<>> THEN acc ELSE maxOf(Tail(ns), Max(acc, Head(ns)))

\* measureText(text, fontFamily, fontSize, maxWidth)
measureText(text, metrics, fontSize, maxWidth) ==
    IF metrics = "unavailable"
    THEN [width |-> maxWidth, height |-> fontSize * 140, lines |-> 1]
    ELSE LET ls == fitLines(words(stripTags(text)), <<>>, metrics, fontSize, maxWidth)
         IN  [width |-> maxOf([i \in 1..Len(ls) |-> canvasWidth(metrics, ls[i], fontSize)],
                              NegInfinity),
              height |-> Len(ls) * fontSize * 140,
              lines |-> Len(ls)]

maxIterations == 20

\* the test of the while loop
loopContinues(fontSize, iterations, minFontSize) ==
    fontSize >= minFontSize /\ iterations < maxIterations

\* faulty variant: the height comparison is reversed
fitsBoundsHeightReversed(dimensions, textBounds) ==
    dimensions.height >= textBounds.height /\ dimensions.width <= textBounds.width

\* the test of the if in the loop
fitsBounds(dimensions, textBounds) ==
    dimensions.height <= textBounds.height /\ dimensions.width <= textBounds.width

\* faulty variant: the size is lowered by two
nextFontSizeSkipping(fontSize, minFontSize) == Max(minFontSize, fontSize - 2)

\* fontSize = Math.max(minFontSize, fontSize - 1)
nextFontSize(fontSize, minFontSize) == Max(minFontSize, fontSize - 1)

\* the return inside the loop; scaleFactor = fontSize / targetFontSize is kept
\* as the pair (numerator, denominator)
fitResult(fontSize, dimensions, targetFontSize) ==
    [fontSize |-> fontSize, textWidth |-> dimensions.width, textHeight |-> dimensions.height,
     fits |-> TRUE, scaleFactor |-> <<fontSize, targetFontSize>>]

\* the return after the loop
fallbackResult(minFontSize, dimensions, textBounds, targetFontSize) ==
    [fontSize |-> minFontSize, textWidth |-> dimensions.width, textHeight |-> dimensions.height,
     fits |-> dimensions.height <= textBounds.height,
     scaleFactor |-> <<minFontSize, targetFontSize>>]

Placeholder == <<"V", "o", "t", "r", "e", " ", "t", "e", "x", "t", "e", " ", "i", "c", "i">>

\* the early return of autoFitBubbleText
autoFitSkips(b) == b.type = "TextOnly" \/ b.text = <<>> \/ b.text = Placeholder

\* faulty variant: the computed size is written into the argument, which is returned
autoFitReturnInPlace(b, res) ==
    [arg |-> [b EXCEPT !.fontSize = res.fontSize], ret |-> [b EXCEPT !.fontSize = res.fontSize]]

\* the end of autoFitBubbleText: the argument object after the call and the
\* value returned ({ ...bubble, fontSize } is a new object)
autoFitReturn(b, res) ==
    [arg |-> b,
     ret |-> IF res.fontSize = b.fontSize THEN b ELSE [b EXCEPT !.fontSize = res.fontSize]]

(***************************************************************************)
(* The geometry functions applied to an input bubble.                      *)
(***************************************************************************)
NoPaths == [bodyPath |-> <<>>, partsCircles |-> <<>>]
NoBbox == [x |-> 0, y |-> 0, width |-> 0, height |-> 0]

GeomIdle ==
    /\ bubble = [type |-> "TextOnly", width |-> 0, height |-> 0, parts |-> <<>>]
    /\ paths = NoPaths
    /\ bbox = NoBbox
    /\ gpc = [generate |-> FALSE, bbox |-> FALSE]

GeomInit ==
    /\ bubble \in InputBubbles
    /\ paths = NoPaths
    /\ bbox = NoBbox
    /\ gpc = [generate |-> FALSE, bbox |-> FALSE]

\* a caller (BubbleItem) applies generateBubblePaths to the bubble
GenerateBubblePaths ==
    /\ ~gpc.generate
    /\ paths' = generateBubblePaths(bubble)
    /\ gpc' = [gpc EXCEPT !.generate = TRUE]
    /\ UNCHANGED <<bubble, bbox>>

\* a caller (BubbleItem) applies getOverallBbox to the bubble
GetOverallBbox ==
    /\ ~gpc.bbox
    /\ bbox' = getOverallBbox(bubble)
    /\ gpc' = [gpc EXCEPT !.bbox = TRUE]
    /\ UNCHANGED <<bubble, paths>>

GeomNext ==
    \/ GenerateBubblePaths /\ UNCHANGED <<wvars, fvars>>
    \/ GetOverallBbox /\ UNCHANGED <<wvars, fvars>>

(***************************************************************************)
(* drawRichText as a state machine: save, measure, wrap, draw, restore.    *)
(***************************************************************************)
InputRectWidths == {1, 3, 7}
InputFontSizes == {16}
InputWidthFns == {"none", "widening", "narrowing"}

InputCalls ==
    [html : SeqsUpTo(HtmlChars, MaxHtmlLen),
     width : InputRectWidths,
     fontSize : InputFontSizes,
     getMaxWidthAtY : InputWidthFns]

NoCall == [html |-> <<>>, width |-> 0, fontSize |-> 0, getMaxWidthAtY |-> "none"]
NewCtx == [saves |-> 0, restores |-> 0, fillText |-> <<>>]

WrapInit ==
    /\ call \in InputCalls
    /\ segments = <<>>
    /\ lines = <<>>
    /\ lineYs = <<>>
    /\ currentLine = EmptyLine
    /\ currentY = 0
    /\ segIdx = 1
    /\ drawIdx = 1
    /\ ctx = NewCtx
    /\ wpc = "start"

WrapIdle ==
    /\ call = NoCall
    /\ segments = <<>>
    /\ lines = <<>>
    /\ lineYs = <<>>
    /\ currentLine = EmptyLine
    /\ currentY = 0
    /\ segIdx = 1
    /\ drawIdx = 1
    /\ ctx = NewCtx
    /\ wpc = "idle"

\* const segments = parseRichText(html, defaultStyle); ctx.save();
ParseAndSave ==
    /\ wpc = "start"
    /\ segments' = parseRichText(call.html)
    /\ ctx' = [ctx EXCEPT !.saves = @ + 1]
    /\ wpc' = "measure"
    /\ UNCHANGED <<call, lines, lineYs, currentLine, currentY, segIdx, drawIdx>>

\* segments.forEach: seg.width = ctx.measureText(seg.text).width; seg.height = fontSize
MeasureSegments ==
    /\ wpc = "measure"
    /\ segments' = [i \in 1..Len(segments) |->
                       [segments[i] EXCEPT !.width = measureWidth(segments[i].text),
                                           !.height = call.fontSize]]
    /\ wpc' = "wrap"
    /\ UNCHANGED <<call, lines, lineYs, currentLine, currentY, segIdx, drawIdx, ctx>>

\* one pass of `for (const seg of segments)` over a '\n' segment: the line is
\* pushed and the function returns
WrapForcedBreak ==
    /\ wpc = "wrap"
    /\ segIdx <= Len(segments)
    /\ segments[segIdx].text = NewlineText
    /\ lines' = Append(lines, currentLine)
    /\ lineYs' = Append(lineYs, currentY)
    /\ currentLine' = EmptyLine
    /\ currentY' = currentY + (IF EmptyLine.height # 0 THEN EmptyLine.height ELSE call.fontSize)
    /\ wpc' = "returned"
    /\ UNCHANGED <<call, segments, segIdx, drawIdx, ctx>>

\* one pass of `for (const seg of segments)` over a text segment
WrapTextSegment ==
    /\ wpc = "wrap"
    /\ segIdx <= Len(segments)
    /\ segments[segIdx].text # NewlineText
    /\ LET st == placeWords([lines |-> lines, lineYs |-> lineYs,
                             currentLine |-> currentLine, currentY |-> currentY],
                            words(segments[segIdx].text), segments[segIdx], call)
       IN  /\ lines' = st.lines
           /\ lineYs' = st.lineYs
           /\ currentLine' = st.currentLine
           /\ currentY' = st.currentY
    /\ segIdx' = segIdx + 1
    /\ UNCHANGED <<call, segments, drawIdx, ctx, wpc>>

\* if (currentLine.segments.length > 0) lines.push(currentLine); then the
\* vertical alignment
WrapFlush ==
    /\ wpc = "wrap"
    /\ segIdx > Len(segments)
    /\ IF Len(currentLine.segments) > 0
       THEN lines' = Append(lines, currentLine) /\ lineYs' = Append(lineYs, currentY)
       ELSE UNCHANGED <<lines, lineYs>>
    /\ wpc' = "draw"
    /\ UNCHANGED <<call, segments, currentLine, currentY, segIdx, drawIdx, ctx>>

\* one pass of `for (const line of lines)`: fillText for every run with text
DrawLine ==
    /\ wpc = "draw"
    /\ drawIdx <= Len(lines)
    /\ ctx' = [ctx EXCEPT !.fillText =
                  @ \o [i \in 1..Len(SelectSeq(lines[drawIdx].segments, LAMBDA sg : sg.text # <<>>))
                           |-> SelectSeq(lines[drawIdx].segments, LAMBDA sg : sg.text # <<>>)[i].text]]
    /\ drawIdx' = drawIdx + 1
    /\ UNCHANGED <<call, segments, lines, lineYs, currentLine, currentY, segIdx, wpc>>

\* ctx.restore(); the promise resolves
Restore ==
    /\ wpc = "draw"
    /\ drawIdx > Len(lines)
    /\ ctx' = [ctx EXCEPT !.restores = @ + 1]
    /\ wpc' = "done"
    /\ UNCHANGED <<call, segments, lines, lineYs, currentLine, currentY, segIdx, drawIdx>>

WrapNext ==
    \/ ParseAndSave /\ UNCHANGED <<gvars, fvars>>
    \/ MeasureSegments /\ UNCHANGED <<gvars, fvars>>
    \/ WrapForcedBreak /\ UNCHANGED <<gvars, fvars>>
    \/ WrapTextSegment /\ UNCHANGED <<gvars, fvars>>
    \/ WrapFlush /\ UNCHANGED <<gvars, fvars>>
    \/ DrawLine /\ UNCHANGED <<gvars, fvars>>
    \/ Restore /\ UNCHANGED <<gvars, fvars>>

(***************************************************************************)
(* autoFitBubbleText and calculateOptimalFontSize as a state machine: one  *)
(* step per pass of the while loop.  An autoFitBubbleText call is followed *)
(* by a second application to the bubble it returned.                      *)
(***************************************************************************)
MaxTextWords == 3

FitWidths == {30, 60, 300}
FitHeights == {45, 120}
FitFontSizes == {5, 8, 16, 28, 40, 45}
FitTypes == {"Shout", "Thought", "SpeechDown", "Descriptive", "TextOnly"}
FitMetrics == {"linear", "hinted", "unavailable"}

\* a text of n words "aaaa", with a tag in front
RECURSIVE TextOfWords(_)
TextOfWords(n) ==
    IF n = 0 THEN <<"<i>">> ELSE TextOfWords(n - 1) \o <<" ", "a", "a", "a", "a">>

FitTexts ==
    {<<>>, Placeholder, <<" ">>, <<"a", "a", "a", "a", "a", "a", "a", "a", "a", "a", "a", "a">>}
    \cup {TextOfWords(n) : n \in 1..MaxTextWords}

\* autoFitBubbleText passes the defaults (8, 40); callers of
\* calculateOptimalFontSize may pass their own
FitCalls ==
    [entry : {"autoFitBubbleText"}, minFontSize : {8}, maxFontSize : {40}, metrics : FitMetrics]
    \cup [entry : {"calculateOptimalFontSize"}, minFontSize : {8, 12}, maxFontSize : {24, 40},
          metrics : FitMetrics]

FitBubbles ==
    [type : FitTypes, width : FitWidths, height : FitHeights,
     fontSize : FitFontSizes, text : FitTexts]

NoBubble == [type |-> "TextOnly", width |-> 0, height |-> 0, fontSize |-> 0, text |-> <<>>]
NoLoop == [fontSize |-> 0, iterations |-> 0, measures |-> 0]
NoResult ==
    [fontSize |-> 0, textWidth |-> 0, textHeight |-> 0, fits |-> FALSE, scaleFactor |-> <<0, 0>>]

FitInit ==
    /\ fcall \in FitCalls
    /\ fbubble \in FitBubbles
    /\ fargs = <<fbubble>>
    /\ loop = NoLoop
    /\ result = NoResult
    /\ rets = <<>>
    /\ fpc = "call"

FitIdle ==
    /\ fcall = [entry |-> "none", minFontSize |-> 0, maxFontSize |-> 0, metrics |-> "linear"]
    /\ fbubble = NoBubble
    /\ fargs = <<>>
    /\ loop = NoLoop
    /\ result = NoResult
    /\ rets = <<>>
    /\ fpc = "idle"

\* autoFitBubbleText: the early return
AutoFitSkip ==
    /\ fpc = "call"
    /\ fcall.entry = "autoFitBubbleText"
    /\ autoFitSkips(fbubble)
    /\ rets' = Append(rets, fbubble)
    /\ fpc' = "returned"
    /\ UNCHANGED <<fcall, fbubble, fargs, loop, result>>

\* calculateOptimalFontSize up to the loop: fontSize = Math.min(targetFontSize, maxFontSize)
EnterCalculate ==
    /\ fpc = "call"
    /\ fcall.entry = "autoFitBubbleText" => ~autoFitSkips(fbubble)
    /\ loop' = [fontSize |-> Min(fbubble.fontSize, fcall.maxFontSize), iterations |-> 0,
                measures |-> 0]
    /\ fpc' = "loop"
    /\ UNCHANGED <<fcall, fbubble, fargs, result, rets>>

\* one pass of the while loop
LoopIteration ==
    /\ fpc = "loop"
    /\ loopContinues(loop.fontSize, loop.iterations, fcall.minFontSize)
    /\ LET textBounds == getTextBounds(fbubble)
           dimensions == measureText(fbubble.text, fcall.metrics, loop.fontSize, textBounds.width)
       IN  IF fitsBounds(dimensions, textBounds)
           THEN /\ result' = fitResult(loop.fontSize, dimensions, fbubble.fontSize)
                /\ loop' = [loop EXCEPT !.measures = @ + 1]
                /\ fpc' = "fitted"
           ELSE /\ loop' = [fontSize |-> nextFontSize(loop.fontSize, fcall.minFontSize),
                            iterations |-> loop.iterations + 1,
                            measures |-> loop.measures + 1]
                /\ UNCHANGED <<result, fpc>>
    /\ UNCHANGED <<fcall, fbubble, fargs, rets>>

\* the loop is left without a fit: measure at minFontSize and return
LoopExit ==
    /\ fpc = "loop"
    /\ ~loopContinues(loop.fontSize, loop.iterations, fcall.minFontSize)
    /\ LET textBounds == getTextBounds(fbubble)
           dimensions == measureText(fbubble.text, fcall.metrics, fcall.minFontSize,
                                     textBounds.width)
       IN  result' = fallbackResult(fcall.minFontSize, dimensions, textBounds, fbubble.fontSize)
    /\ loop' = [loop EXCEPT !.measures = @ + 1]
    /\ fpc' = "fitted"
    /\ UNCHANGED <<fcall, fbubble, fargs, rets>>

\* autoFitBubbleText after calculateOptimalFontSize returned
AutoFitReturn ==
    /\ fpc = "fitted"
    /\ fcall.entry = "autoFitBubbleText"
    /\ fbubble' = autoFitReturn(fbubble, result).arg
    /\ rets' = Append(rets, autoFitReturn(fbubble, result).ret)
    /\ fpc' = "returned"
    /\ UNCHANGED <<fcall, fargs, loop, result>>

\* autoFitBubbleText is applied to the bubble the first application returned
AutoFitAgain ==
    /\ fpc = "returned"
    /\ Len(rets) = 1
    /\ fbubble' = rets[1]
    /\ fargs' = Append(fargs, rets[1])
    /\ loop' = NoLoop
    /\ result' = NoResult
    /\ fpc' = "call"
    /\ UNCHANGED <<fcall, rets>>

FitNext ==
    \/ AutoFitSkip /\ UNCHANGED <<gvars, wvars>>
    \/ EnterCalculate /\ UNCHANGED <<gvars, wvars>>
    \/ LoopIteration /\ UNCHANGED <<gvars, wvars>>
    \/ LoopExit /\ UNCHANGED <<gvars, wvars>>
    \/ AutoFitReturn /\ UNCHANGED <<gvars, wvars>>
    \/ AutoFitAgain /\ UNCHANGED <<gvars, wvars>>

(***************************************************************************)
(* The specifications.                                                     *)
(***************************************************************************)
InitGeom == GeomInit /\ WrapIdle /\ FitIdle

SpecGeom == InitGeom /\ [][GeomNext]_vars

InitWrap == WrapInit /\ GeomIdle /\ FitIdle

SpecWrap == InitWrap /\ [][WrapNext]_vars

InitFit == FitInit /\ GeomIdle /\ WrapIdle

SpecFit == InitFit /\ [][FitNext]_vars

(***************************************************************************)
(* Properties.                                                             *)
(***************************************************************************)
\* C1: for a bubble with a speech tail whose tip lies outside the body
\* rectangle, the rectangle of getOverallBbox contains the tip with the
\* 10-unit padding on every side.
C1_BboxPadsTip ==
    gpc.bbox =>
        \A t \in TailsOf(bubble) :
            TipOutsideBody(bubble, t) =>
                /\ bbox.x <= t.tipX - padding * Scale
                /\ bbox.y <= t.tipY - padding * Scale
                /\ bbox.x + bbox.width >= t.tipX + padding * Scale
                /\ bbox.y + bbox.height >= t.tipY + padding * Scale

\* C2: for every archetype and parts list, generateBubblePaths returns a
\* non-empty bodyPath whose first command is M and whose last command is Z.
C2_PathStartsMEndsZ ==
    gpc.generate =>
        /\ paths.bodyPath # <<>>
        /\ paths.bodyPath[1] = Cmd("M")
        /\ paths.bodyPath[Len(paths.bodyPath)] = Cmd("Z")

\* C3: in every bodyPath, each command carries exactly its expected number
\* of numeric arguments (M, L: 2; Q: 4; A: 7; Z: 0).
C3_ArgumentCounts ==
    gpc.generate =>
        \A i \in CmdIndexes(paths.bodyPath) :
            Len(ArgsOf(paths.bodyPath, i)) = ExpectedArgs(paths.bodyPath[i].c)

\* C4: the rectangle of getOverallBbox contains every end point and control
\* point of the bodyPath of the same bubble and the full extent of every
\* circle of partsCircles.
C4_BboxContainsPath ==
    (gpc.generate /\ gpc.bbox) =>
        /\ \A pt \in PathPoints(paths.bodyPath) : InRect(bbox, pt[1], pt[2])
        /\ \A i \in 1..Len(paths.partsCircles) :
            LET c == paths.partsCircles[i]
            IN  /\ InRect(bbox, c.cx - c.r, c.cy - c.r)
                /\ InRect(bbox, c.cx + c.r, c.cy + c.r)

\* C5: for a speech-family bubble whose tail's clamped base lies on the top
\* or bottom edge, leftBaseX and rightBaseX both lie in [r, width - r] and
\* leftBaseX <= rightBaseX; for width 200, height 100, base (100,100) of
\* width 40 they are 80 and 120.
C5_BaseCutWithinEdge ==
    (gpc.generate /\ IsSpeechFamily(bubble.type) /\ findTail(bubble.parts) # <<>>) =>
        LET w == bubble.width
            h == bubble.height
            r == cornerRadius(bubble.type, w, h)
            tail == findTail(bubble.parts)[1]
            lx == leftBaseX(w, r, tail)
            rx == rightBaseX(w, r, tail)
        IN  clampedBaseCY(h, tail) \in {0, h} =>
                /\ r <= lx /\ lx <= w - r
                /\ r <= rx /\ rx <= w - r
                /\ lx <= rx
                /\ (w = 200 * Scale /\ h = 100 * Scale /\ tail.baseCX = 100 * Scale
                    /\ tail.baseCY = 100 * Scale /\ tail.baseWidth = 40 * Scale)
                   => (lx = 80 * Scale /\ rx = 120 * Scale)

\* the wrap step of drawRichText is over: the loop ended or returned
WrapOver == wpc \in {"returned", "draw", "done"}

RECURSIVE Flatten(_)
Flatten(ss) == IF ss = <<>> THEN <<>> ELSE Head(ss) \o Flatten(Tail(ss))

\* the words placed in the output lines, line by line
PlacedWords ==
    Flatten([i \in 1..Len(lines) |->
                [j \in 1..Len(lines[i].segments) |-> lines[i].segments[j].text]])

\* the whitespace-separated words of the parsed text segments, in order
SegmentWords ==
    Flatten([i \in 1..Len(segments) |->
                IF segments[i].text = NewlineText THEN <<>> ELSE words(segments[i].text)])

HasBreak == \E i \in 1..Len(call.html) : call.html[i] = "<br>"

\* C6: the words of the output lines of the wrap step, read line by line,
\* are exactly the whitespace-separated words of the parsed text segments in
\* their original order, also for markup with line-break tags.
C6_WrapKeepsEveryWord == WrapOver => PlacedWords = SegmentWords

\* the available width at the vertical cursor of output line i
LineAvail(i) == maxLineWidthAt(call, lineYs[i])

RECURSIVE SumWidths(_)
SumWidths(segs) == IF segs = <<>> THEN 0 ELSE Head(segs).width + SumWidths(Tail(segs))

\* every word of the text is wider than the available width at every cursor
\* the wrap step can reach
EveryWordIsWide ==
    \A i \in 1..Len(SegmentWords) :
        \A k \in 0..(Len(SegmentWords) + Len(segments)) :
            measureWidth(Append(SegmentWords[i], " ")) > maxLineWidthAt(call, k * call.fontSize)

\* a line of more than one word fits the available width at its cursor
MultiWordLinesFit ==
    \A i \in 1..Len(lines) :
        Len(lines[i].segments) > 1 => SumWidths(lines[i].segments) <= LineAvail(i)

\* a word wider than the available width is a whole word, alone on its line
WideWordsStandAlone ==
    \A i \in 1..Len(lines) :
        \A j \in 1..Len(lines[i].segments) :
            /\ \E m \in 1..Len(SegmentWords) : lines[i].segments[j].text = SegmentWords[m]
            /\ lines[i].segments[j].width > LineAvail(i) => Len(lines[i].segments) = 1

ArgAtCall == fargs[Len(fargs)]

\* C8: autoFitBubbleText is idempotent and does not mutate its argument:
\* the second application returns a bubble value-equal to the first result,
\* the argument's fields are unchanged by the call, the result differs from
\* the argument in no field other than fontSize, and TextOnly bubbles and
\* bubbles with empty or placeholder text are returned unchanged.
C8_AutoFitIdempotentAndPure ==
    fcall.entry = "autoFitBubbleText" =>
        /\ fbubble = ArgAtCall
        /\ fpc = "returned" =>
            /\ [rets[Len(rets)] EXCEPT !.fontSize = 0] = [ArgAtCall EXCEPT !.fontSize = 0]
            /\ autoFitSkips(ArgAtCall) => rets[Len(rets)] = ArgAtCall
        /\ Len(rets) = 2 => rets[2] = rets[1]

\* C8 witness: the first application changed the font size and the second
\* application, on the bubble it returned, has returned too.
C8_Witness ==
    /\ fcall.entry = "autoFitBubbleText"
    /\ Len(rets) = 2
    /\ rets[1].fontSize # fargs[1].fontSize
    /\ loop.measures >= 1

\* C9: whenever calculateOptimalFontSize returns fits = true, the returned
\* textWidth and textHeight are within the safe zone; fits = false comes
\* only with fontSize = minFontSize.
C9_FitsMeansBothDimensionsFit ==
    fpc = "fitted" =>
        /\ result.fits =>
            /\ result.textWidth <= getTextBounds(fbubble).width
            /\ result.textHeight <= getTextBounds(fbubble).height
        /\ ~result.fits => result.fontSize = fcall.minFontSize

\* the both-dimensions fit test at font size s for the bubble of the call
FitsAt(s) ==
    fitsBounds(measureText(fbubble.text, fcall.metrics, s, getTextBounds(fbubble).width),
               getTextBounds(fbubble))

StartSize == Min(fbubble.fontSize, fcall.maxFontSize)

Largest(S) == CHOOSE s \in S : \A t \in S : t <= s

\* the result is the largest fitting size of the set S, or minFontSize when
\* S holds no fitting size
ReturnsLargestOf(S) ==
    LET fitting == {s \in S : FitsAt(s)}
    IN  IF fitting # {}
        THEN result.fontSize = Largest(fitting) /\ result.fits
        ELSE result.fontSize = fcall.minFontSize

\* C10: if some integer size s with minFontSize <= s <= min(bubble.fontSize,
\* maxFontSize) makes the text fit in both dimensions, the returned fontSize
\* is the largest such s and fits is true; only when none exists is
\* minFontSize returned.
C10_ReturnsLargestFittingSize ==
    fpc = "fitted" => ReturnsLargestOf(fcall.minFontSize..StartSize)

\* C10 (amended): the same, over the sizes the iteration cap lets the loop
\* try: the 20 sizes from min(bubble.fontSize, maxFontSize) downwards that
\* are not below minFontSize.
C10_ReturnsLargestFittingSizeTried ==
    fpc = "fitted" =>
        ReturnsLargestOf(Max(fcall.minFontSize, StartSize - (maxIterations - 1))..StartSize)

\* C10 witness: the search returned a fitting size strictly between
\* minFontSize and the size it started from.
C10_Witness ==
    /\ fpc = "fitted"
    /\ result.fits
    /\ fcall.minFontSize < result.fontSize
    /\ result.fontSize < StartSize

\* C11: every call of calculateOptimalFontSize terminates and performs at
\* most 20 measurement rounds (calls of measureText), also when the size has
\* reached minFontSize and the text still does not fit: the loop never runs
\* more than maxIterations passes and no call has made more than
\* maxIterations measureText calls.
C11_AtMostTwentyMeasurements ==
    /\ loop.iterations <= maxIterations
    /\ loop.measures <= maxIterations

\* the while loop of calculateOptimalFontSize and the return after it, as a
\* function of the loop state
RECURSIVE fontSizeSearch(_, _, _, _, _, _)
fontSizeSearch(text, b, metrics, minFontSize, fontSize, iterations) ==
    LET textBounds == getTextBounds(b)
    IN  IF loopContinues(fontSize, iterations, minFontSize)
        THEN LET dimensions == measureText(text, metrics, fontSize, textBounds.width)
             IN  IF fitsBounds(dimensions, textBounds)
                 THEN fitResult(fontSize, dimensions, b.fontSize)
                 ELSE fontSizeSearch(text, b, metrics, minFontSize,
                                     nextFontSize(fontSize, minFontSize), iterations + 1)
        ELSE fallbackResult(minFontSize,
                            measureText(text, metrics, minFontSize, textBounds.width),
                            textBounds, b.fontSize)

\* calculateOptimalFontSize(text, bubble, fontFamily, minFontSize, maxFontSize)
calculateOptimalFontSize(text, b, metrics, minFontSize, maxFontSize) ==
    fontSizeSearch(text, b, metrics, minFontSize, Min(b.fontSize, maxFontSize), 0)

\* the result the loop reached step by step is the value of the function
StepwiseResultIsFunctionValue ==
    fpc = "fitted" =>
        result = calculateOptimalFontSize(fbubble.text, fbubble, fcall.metrics,
                                          fcall.minFontSize, fcall.maxFontSize)

\* metrics whose widths do not decrease with the font size
MonotoneMetrics == {"linear", "unavailable"}

\* the bubbles strictly larger in width and height than the bubble of the
\* call, all else equal
LargerBubbles ==
    {[fbubble EXCEPT !.width = w, !.height = h] :
        w \in {x \in FitWidths : x > fbubble.width},
        h \in {y \in FitHeights : y > fbubble.height}}

FontSizeFor(b) ==
    calculateOptimalFontSize(b.text, b, fcall.metrics, fcall.minFontSize,
                             fcall.maxFontSize).fontSize

\* C12: fit monotonicity: for the same text, font, bubble.fontSize,
\* archetype, minFontSize and maxFontSize and metrics whose widths do not
\* decrease with the font size, a bubble strictly larger in width and height
\* never gets a smaller fontSize from calculateOptimalFontSize.
C12_LargerBubbleNeverSmallerFont ==
    (fpc = "fitted" /\ fcall.metrics \in MonotoneMetrics) =>
        \A b2 \in LargerBubbles : FontSizeFor(b2) >= result.fontSize

\* C12 witness: a call has returned and a strictly larger bubble gets a
\* strictly larger font size.
C12_Witness ==
    /\ fpc = "fitted"
    /\ fcall.metrics \in MonotoneMetrics
    /\ \E b2 \in LargerBubbles : FontSizeFor(b2) > result.fontSize

\* C13: auto-fit only shrinks: the fontSize calculateOptimalFontSize
\* returns, and the fontSize of the bubble autoFitBubbleText returns for a
\* bubble it fits, is never greater than min(bubble.fontSize, maxFontSize),
\* also for a bubble whose fontSize is below minFontSize.
C13_AutoFitOnlyShrinks ==
    /\ fpc = "fitted" => result.fontSize <= StartSize
    /\ (fpc = "returned" /\ ~autoFitSkips(ArgAtCall)) =>
           rets[Len(rets)].fontSize <= Min(ArgAtCall.fontSize, fcall.maxFontSize)

\* the promise of drawRichText has resolved
Resolved == wpc \in {"returned", "done"}

\* C14: every invocation of drawRichText runs save, measure, wrap, draw,
\* restore in this order and completes only after ctx.restore(): while the
\* phases run the one ctx.save() is not yet restored, and when the promise
\* resolves ctx.save() has been matched by exactly one ctx.restore() and the
\* draw loop has passed over every wrapped line.
C14_SaveRestoreBalanced ==
    /\ ctx.restores <= ctx.saves
    /\ wpc \in {"measure", "wrap", "draw"} => (ctx.saves = 1 /\ ctx.restores = 0)
    /\ wpc \in {"start", "measure", "wrap"} => ctx.fillText = <<>>
    /\ Resolved =>
        /\ ctx.saves = 1
        /\ ctx.restores = 1
        /\ drawIdx = Len(lines) + 1

====
